---------------------------- MODULE Spec2Model ----------------------------
(***************************************************************************)
(* A model of whitehats/envcacher:                                         *)
(*   src/virtualenvcache.py  VirtualEnvCache.get, VirtualEnv.build and the *)
(*                           good-mark file, over a small file system;     *)
(*   src/requirements.py     Requirements.load, common_req, natural_sort,  *)
(*                           is_vcs, over manifest lines given as          *)
(*                           sequences of characters.                      *)
(***************************************************************************)
EXTENDS Integers, Sequences, FiniteSets, TLC

(***************************************************************************)
(* Bounds of the model.                                                    *)
(***************************************************************************)
\* processes that may call into the cache (Spec runs them one at a time)
NProcs == 2
\* manifests with different keys (md5 digests) that runs may ask for
NumKeys == 2

(***************************************************************************)
(* PART I.  The cache: src/virtualenvcache.py                              *)
(***************************************************************************)

\* len(os.path.basename(path)) == 32, virtualenvcache.py line 133
KeyLen == 32

Procs == 1 .. NProcs

\* A directory's base name, by what the program looks at: its length, and
\* whether every character is a hexadecimal digit.  id tells apart two names
\* of the same shape.
Names ==
    { [id |-> i, len |-> KeyLen, hex |-> TRUE] : i \in 1 .. NumKeys }
      \cup { [id |-> 0, len |-> KeyLen, hex |-> FALSE],
             [id |-> 0, len |-> KeyLen - 1, hex |-> TRUE] }

\* RequirementsKey.get_key: hashlib.md5().hexdigest(), 32 hexadecimal digits
DigestNames == { n \in Names : n.len = KeyLen /\ n.hex }

\* the names SpecAnyKey works on: one digest and the names of other shapes
AnyNames == { n \in Names : n.id <= 1 }

\* the expected fixed-length hex key format
KeyShaped(n) == n.len = KeyLen /\ n.hex

\* an absent directory, and an existing one holding files
NoDir == [ exists |-> FALSE, files |-> {} ]

Dir(files) == [ exists |-> TRUE, files |-> files ]

\* VirtualEnv.__goodmark_file_name: '1335_HaXx0r_approved'
GoodMark == "1335_HaXx0r_approved"

\* the files of an environment the model tells apart
FileNames == { "env", "pip_vcs_patched", "requirements.txt", GoodMark }

VARIABLES
    dirs,      \* dirs[n]: NoDir, or Dir(the set of <<file, writer>> in n), the
               \* writer being the call in flight that wrote it, 0 once at rest
    pc,        \* pc[p]: where process p stands in get / build
    call,      \* call[p]: the arguments of p's current call, the directory it
               \* found on entry, the exception raised, and the sequence of
               \* the operations it has carried out so far
    last       \* last[n]: the most recent build started at n: the process
               \* running it (0 once at rest), how it stands, and for a
               \* build that ended good the steps it ran and its fix_pip

cacheVars == << dirs, pc, call, last >>


(***************************************************************************)
(* Bounds of the parser's runs.                                            *)
(***************************************************************************)
\* lines read over a whole load, included files counted in
MaxLines == 3
\* nesting of -r includes
MaxDepth == 1

\* the lines a manifest is made of
\* 'flask==1.0'
L_flask_eq_1_0 ==
    << "f", "l", "a", "s", "k", "=", "=", "1", ".", "0" >>

\* 'flask>=0.9'
L_flask_ge_0_9 ==
    << "f", "l", "a", "s", "k", ">", "=", "0", ".", "9" >>

\* 'flask>=2.0'
L_flask_ge_2_0 ==
    << "f", "l", "a", "s", "k", ">", "=", "2", ".", "0" >>

\* 'flask==2.0'
L_flask_eq_2_0 ==
    << "f", "l", "a", "s", "k", "=", "=", "2", ".", "0" >>

\* 'flask'
L_flask ==
    << "f", "l", "a", "s", "k" >>

\* 'git+ssh://x/y#egg=flask'
L_vcs_y ==
    << "g", "i", "t", "+", "s", "s", "h", ":", "/", "/", "x", "/", "y", "#",
       "e", "g", "g", "=", "f", "l", "a", "s", "k" >>

\* 'git+ssh://x/z#egg=flask'
L_vcs_z ==
    << "g", "i", "t", "+", "s", "s", "h", ":", "/", "/", "x", "/", "z", "#",
       "e", "g", "g", "=", "f", "l", "a", "s", "k" >>

\* '-e git+ssh://x/y#egg=flask'
L_e_vcs_y ==
    << "-", "e", " ", "g", "i", "t", "+", "s", "s", "h", ":", "/", "/", "x",
       "/", "y", "#", "e", "g", "g", "=", "f", "l", "a", "s", "k" >>

\* 'http://x/y'
L_http ==
    << "h", "t", "t", "p", ":", "/", "/", "x", "/", "y" >>

\* ' django>=1.10'
L_django_ge_1_10 ==
    << " ", "d", "j", "a", "n", "g", "o", ">", "=", "1", ".", "1", "0" >>

\* 'django>=1.9 '
L_django_ge_1_9 ==
    << "d", "j", "a", "n", "g", "o", ">", "=", "1", ".", "9", " " >>

\* ' '
L_blank ==
    << " " >>

\* '-r sub.txt'
L_include ==
    << "-", "r", " ", "s", "u", "b", ".", "t", "x", "t" >>

\* 'flask=1'
L_bad ==
    << "f", "l", "a", "s", "k", "=", "1" >>

\* '-e'
L_e_alone ==
    << "-", "e" >>

\* 'flask>=2.00'
L_flask_ge_2_00 ==
    << "f", "l", "a", "s", "k", ">", "=", "2", ".", "0", "0" >>

\* 'flask2.0'
L_flask2_0 ==
    << "f", "l", "a", "s", "k", "2", ".", "0" >>

\* 'gitdb==1.0'
L_gitdb_eq_1_0 ==
    << "g", "i", "t", "d", "b", "=", "=", "1", ".", "0" >>

Lines ==
    { L_flask_eq_1_0,
      L_flask_ge_0_9,
      L_flask_ge_2_0,
      L_flask_eq_2_0,
      L_flask,
      L_vcs_y,
      L_vcs_z,
      L_e_vcs_y,
      L_http,
      L_django_ge_1_10,
      L_django_ge_1_9,
      L_blank,
      L_include,
      L_bad,
      L_e_alone,
      L_flask_ge_2_00,
      L_flask2_0,
      L_gitdb_eq_1_0 }

VARIABLES
    objs,          \* the Requirement objects made so far, by identity
    reqs,          \* Requirements.reqs: the objects in order of arrival
    reqs_by_name,  \* Requirements.reqs_by_name: name -> object
    rstate,        \* "loading", "done", or "error": load raised
    rerr,          \* the exception load raised
    depth,         \* how many -r includes the line being read is inside
    hist           \* the lines read so far, in order

reqVars == << objs, reqs, reqs_by_name, rstate, rerr, depth, hist >>

vars ==
    << dirs, pc, call, last, objs, reqs, reqs_by_name, rstate, rerr, depth, hist >>

Range(q) == { q[i] : i \in 1 .. Len(q) }

FilesOf(d) == { x[1] : x \in d.files }

\* os.path.exists(path)
Exists(n) == dirs[n].exists

\* a lookup of the wrong marker file: no environment is ever found good
is_good_never(n) == FALSE

\* VirtualEnv.is_good: os.path.exists(goodmark file)
is_good(n) == GoodMark \in FilesOf(dirs[n])

\* VirtualEnv.is_bad
is_bad(n) == ~ is_good(n)

\* open(name, 'w') / a tool writing file f, in the call of process id
WriteFile(d, f, id) == Dir({ x \in d.files : x[1] # f } \cup { << f, id >> })

NoCall ==
    [ key |-> CHOOSE n \in Names : n.id = 1, keep_broken |-> FALSE,
      fix_pip |-> FALSE, via |-> "none", err |-> "none",
      start |-> NoDir, ran |-> << >> ]

NoBuild == [ by |-> 0, status |-> "none", ok |-> {}, fix_pip |-> FALSE ]

CacheInit ==
    /\ dirs = [ n \in Names |-> NoDir ]
    /\ pc = [ p \in Procs |-> "idle" ]
    /\ call = [ p \in Procs |-> NoCall ]
    /\ last = [ n \in Names |-> NoBuild ]

\* main() runs one get per process run; runs follow one another
NoneInFlight == \A q \in Procs : pc[q] = "idle"

\* VirtualEnvCache.get entered with a key and the options of this run
EnterGet(p, key, keep, fix) ==
    /\ pc[p] = "idle"
    /\ pc' = [ pc EXCEPT ![p] = "is_good" ]
    /\ call' = [ call EXCEPT ![p] =
                   [ key |-> key, keep_broken |-> keep, fix_pip |-> fix,
                     via |-> "get", err |-> "none",
                     start |-> dirs[key], ran |-> << >> ] ]
    /\ UNCHANGED << dirs, last, reqVars >>

\* get, lines 224-233: return the good environment, or go on to build(force=True)
IsGoodStep(p) ==
    /\ pc[p] = "is_good"
    /\ pc' = [ pc EXCEPT ![p] =
                 IF is_good(call[p].key) THEN "returned" ELSE "force_check" ]
    /\ UNCHANGED << dirs, call, last, reqVars >>

\* a removal that leaves the tree in place
rmtree_skipped(d) == d

\* shutil.rmtree(path)
rmtree(d) == NoDir

\* where an exception raised inside build goes: get's handler, or the caller
RaiseTo(p) == IF call[p].via = "get" THEN "except" ELSE "raised"

\* the check of lines 132-137 on the base name
RemovalAllowed(n) == n.len = KeyLen

\* build, lines 131-137 (force is True here)
ForceCheck(p) ==
    LET n == call[p].key
    IN  /\ pc[p] = "force_check"
        /\ UNCHANGED reqVars
        /\ IF Exists(n) /\ ~ RemovalAllowed(n)
           THEN /\ pc' = [ pc EXCEPT ![p] = RaiseTo(p) ]
                /\ call' = [ call EXCEPT ![p].err = "AssertionError" ]
                /\ dirs' = dirs
                /\ last' = [ last EXCEPT ![n] =
                               [ by |-> p, status |-> "failed", ok |-> {},
                                 fix_pip |-> FALSE ] ]
           ELSE /\ pc' = [ pc EXCEPT ![p] = "makedirs" ]
                /\ call' = [ call EXCEPT ![p].ran =
                               IF Exists(n) THEN Append(@, "rmtree") ELSE @ ]
                /\ dirs' = [ dirs EXCEPT ![n] = rmtree(@) ]
                /\ last' = [ last EXCEPT ![n] =
                               [ by |-> p, status |-> "running", ok |-> {},
                                 fix_pip |-> FALSE ] ]

\* a step of build fails with exception e, leaving directory d behind
Fail(p, e, d) ==
    LET n == call[p].key
    IN  /\ pc' = [ pc EXCEPT ![p] = RaiseTo(p) ]
        /\ call' = [ call EXCEPT ![p].err = e ]
        /\ dirs' = [ dirs EXCEPT ![n] = d ]
        /\ last' = [ last EXCEPT ![n].status =
                       IF last[n].by = p THEN "failed" ELSE @ ]
        /\ UNCHANGED reqVars

\* a step of build succeeds: directory d, step s done, go on at next
Pass(p, s, d, next) ==
    LET n == call[p].key
    IN  /\ pc' = [ pc EXCEPT ![p] = next ]
        /\ call' = [ call EXCEPT ![p].ran = Append(@, s) ]
        /\ dirs' = [ dirs EXCEPT ![n] = d ]
        /\ UNCHANGED << last, reqVars >>

\* build, line 139: os.makedirs(path)
Makedirs(p) ==
    /\ pc[p] = "makedirs"
    /\ \E ok \in BOOLEAN :
         IF Exists(call[p].key) \/ ~ ok
         THEN Fail(p, "OSError", dirs[call[p].key])
         ELSE Pass(p, "makedirs", Dir({}), "create_environment")

\* build, line 140: virtualenv.create_environment(home_dir=path).  It creates
\* home_dir when missing; a failure may leave files behind.
CreateEnvironment(p) ==
    LET n == call[p].key
        env == WriteFile(dirs[n], "env", p)
        next == IF call[p].fix_pip THEN "fix_pip_sed" ELSE "write_requirements"
    IN  /\ pc[p] = "create_environment"
        /\ \E ok \in BOOLEAN, partial \in BOOLEAN :
             IF ok
             THEN Pass(p, "create_environment", env, next)
             ELSE Fail(p, "EnvironmentError", IF partial THEN env ELSE dirs[n])

\* VirtualEnv.execlp, lines 184-202: the child loads bin/activate_this.py of
\* the environment and execs the tool; a non-zero exit code raises
ExeclpCanRun(n) == "env" \in FilesOf(dirs[n])

\* build, lines 145-150: sed on pip's vcs/__init__.py
FixPipSed(p) ==
    LET n == call[p].key
    IN  /\ pc[p] = "fix_pip_sed"
        /\ \E ok \in BOOLEAN :
             IF ok /\ ExeclpCanRun(n)
             THEN Pass(p, "sed",
                       WriteFile(dirs[n], "pip_vcs_patched", p),
                       "fix_pip_unlink")
             ELSE Fail(p, "BuildingVEUnsuccessfulError", dirs[n])

\* build, line 151 and VirtualEnv.unlink: os.unlink of the compiled file,
\* which raises when that file is not there
FixPipUnlink(p) ==
    LET n == call[p].key
    IN  /\ pc[p] = "fix_pip_unlink"
        /\ \E ok \in BOOLEAN :
             IF ok /\ Exists(n)
             THEN Pass(p, "unlink", dirs[n], "write_requirements")
             ELSE Fail(p, "OSError", dirs[n])

\* RequirementsKey.initialize, lines 109-112: write requirements.txt
WriteRequirements(p) ==
    LET n == call[p].key
    IN  /\ pc[p] = "write_requirements"
        /\ \E ok \in BOOLEAN :
             IF ok /\ Exists(n)
             THEN Pass(p, "requirements.txt",
                       WriteFile(dirs[n], "requirements.txt", p),
                       "pip_install")
             ELSE Fail(p, "IOError", dirs[n])

\* an install whose exit code is not looked at
PipInstallUnchecked(p) ==
    LET n == call[p].key
    IN  /\ pc[p] = "pip_install"
        /\ \E ok \in BOOLEAN :
             IF ok /\ ExeclpCanRun(n)
             THEN Pass(p, "install", dirs[n], "mark_as_good")
             ELSE /\ pc' = [ pc EXCEPT ![p] = "mark_as_good" ]
                  /\ UNCHANGED << dirs, call, last, reqVars >>

\* RequirementsKey.initialize, line 114: pip install -r requirements.txt
PipInstall(p) ==
    LET n == call[p].key
    IN  /\ pc[p] = "pip_install"
        /\ \E ok \in BOOLEAN :
             IF ok /\ ExeclpCanRun(n)
             THEN Pass(p, "install", dirs[n], "mark_as_good")
             ELSE Fail(p, "BuildingVEUnsuccessfulError", dirs[n])

\* VirtualEnv.mark_as_good: create the good-mark file
mark_as_good(d, id) == WriteFile(d, GoodMark, id)

\* VirtualEnv.mark_as_bad: unlink the good-mark file if it is there
mark_as_bad(d) == [ d EXCEPT !.files = { x \in @ : x[1] # GoodMark } ]

\* build, lines 155-157: ve.mark_as_good(); return ve
MarkAsGood(p) ==
    LET n == call[p].key
    IN  /\ pc[p] = "mark_as_good"
        /\ IF Exists(n)
           THEN /\ pc' = [ pc EXCEPT ![p] = "returned" ]
                /\ call' = [ call EXCEPT ![p].ran = Append(@, "mark_as_good") ]
                /\ dirs' = [ dirs EXCEPT ![n] = mark_as_good(@, p) ]
                /\ last' = [ last EXCEPT ![n] =
                               IF last[n].by = p
                               THEN [ by |-> p, status |-> "good",
                                      ok |-> Range(call[p].ran),
                                      fix_pip |-> call[p].fix_pip ]
                               ELSE @ ]
                /\ UNCHANGED reqVars
           ELSE Fail(p, "IOError", dirs[n])

\* a handler that does not look at keep_broken
HandlerRemovesAlways(p) == Exists(call[p].key)

\* get, lines 236-237: whether the handler removes the directory
HandlerRemoves(p) == ~ call[p].keep_broken /\ Exists(call[p].key)

\* a handler without its last line: the exception is swallowed
HandlerSwallows(p) == "returned"

\* get, line 242: raise
HandlerEnds(p) == "raised"

\* get, lines 234-242: the handler of every Exception raised by build
Except(p) ==
    LET n == call[p].key
    IN  /\ pc[p] = "except"
        /\ pc' = [ pc EXCEPT ![p] = HandlerEnds(p) ]
        /\ IF HandlerRemoves(p)
           THEN /\ dirs' = [ dirs EXCEPT ![n] = rmtree(@) ]
                /\ call' = [ call EXCEPT ![p].ran = Append(@, "handler_rmtree") ]
           ELSE UNCHANGED << dirs, call >>
        /\ UNCHANGED << last, reqVars >>

\* the caller has the outcome and the run ends: what the call wrote is now
\* plain directory content
Finish(p) ==
    LET n == call[p].key
    IN  /\ pc[p] \in { "returned", "raised" }
        /\ pc' = [ pc EXCEPT ![p] = "idle" ]
        /\ call' = [ call EXCEPT ![p] = NoCall ]
        /\ dirs' = [ m \in Names |->
                       [ dirs[m] EXCEPT !.files =
                           { << x[1], IF x[2] = p THEN 0 ELSE x[2] >> : x \in @ } ] ]
        /\ last' = [ m \in Names |->
                       [ last[m] EXCEPT !.by = IF @ = p THEN 0 ELSE @ ] ]
        /\ UNCHANGED reqVars

\* main, lines 261-263: one run of the program gets the environment of its
\* manifest's key; runs follow one another
Get(p) ==
    /\ NoneInFlight
    /\ \E key \in DigestNames, keep \in BOOLEAN, fix \in BOOLEAN :
         EnterGet(p, key, keep, fix)

\* VirtualEnvCache.get called with a key of any KeyBase subclass
GetAnyKey(p) ==
    /\ NoneInFlight
    /\ \E key \in AnyNames, keep \in BOOLEAN, fix \in BOOLEAN :
         EnterGet(p, key, keep, fix)

\* VirtualEnv.build(path, key, options, force=True) called directly
BuildForced(p) ==
    /\ NoneInFlight
    /\ \E key \in AnyNames, fix \in BOOLEAN :
         /\ pc' = [ pc EXCEPT ![p] = "force_check" ]
         /\ call' = [ call EXCEPT ![p] =
                        [ key |-> key, keep_broken |-> FALSE, fix_pip |-> fix,
                          via |-> "build", err |-> "none",
                          start |-> dirs[key], ran |-> << >> ] ]
    /\ UNCHANGED << dirs, last, reqVars >>


(***************************************************************************)
(* PART II.  The manifest parser: src/requirements.py                      *)
(* A string is the sequence of its characters.                             *)
(***************************************************************************)

LowerCase ==
    << "a", "b", "c", "d", "e", "f", "g", "h", "i", "j", "k", "l", "m", "n",
      "o", "p", "q", "r", "s", "t", "u", "v", "w", "x", "y", "z" >>

UpperCase ==
    << "A", "B", "C", "D", "E", "F", "G", "H", "I", "J", "K", "L", "M", "N",
      "O", "P", "Q", "R", "S", "T", "U", "V", "W", "X", "Y", "Z" >>

Digits == << "0", "1", "2", "3", "4", "5", "6", "7", "8", "9" >>

\* the characters of the model in the order of their code points
Alphabet ==
    << " ", "#", "+", "-", ".", "/", "0", "1", "2", "3", "4", "5", "6", "7",
      "8", "9", ":", "=", ">", "A", "B", "C", "D", "E", "F", "G", "H", "I",
      "J", "K", "L", "M", "N", "O", "P", "Q", "R", "S", "T", "U", "V", "W",
      "X", "Y", "Z", "_", "a", "b", "c", "d", "e", "f", "g", "h", "i", "j",
      "k", "l", "m", "n", "o", "p", "q", "r", "s", "t", "u", "v", "w", "x",
      "y", "z" >>

IndexIn(c, q) == CHOOSE i \in 1 .. Len(q) : q[i] = c

\* ord(c)
Ord(c) == IndexIn(c, Alphabet)

\* str.isdigit, for one character
IsDigit(c) == c \in Range(Digits)

\* [A-Za-z]
IsLetter(c) == c \in Range(LowerCase) \cup Range(UpperCase)

\* [A-Za-z0-9_.-]
IsPackageChar(c) == IsLetter(c) \/ IsDigit(c) \/ c \in { "_", ".", "-" }

\* whitespace, as str.strip and str.split see it
IsSpace(c) == c = " "

\* str.lower, for one character
LowerChar(c) ==
    IF c \in Range(UpperCase) THEN LowerCase[IndexIn(c, UpperCase)] ELSE c

Lower(w) == [ i \in 1 .. Len(w) |-> LowerChar(w[i]) ]

\* None
None == << "None" >>

\* s[i:]
From(w, i) == SubSeq(w, i, Len(w))

\* str.startswith
StartsWith(w, pre) == Len(pre) <= Len(w) /\ SubSeq(w, 1, Len(pre)) = pre

\* the length of the longest prefix of w whose characters satisfy Test
PrefixLen(w, Test(_)) ==
    IF \A i \in 1 .. Len(w) : Test(w[i]) THEN Len(w)
    ELSE (CHOOSE i \in 1 .. Len(w) :
              ~ Test(w[i]) /\ \A j \in 1 .. (i - 1) : Test(w[j])) - 1

\* str.strip
RECURSIVE strip(_)
strip(w) ==
    IF w = << >> THEN w
    ELSE IF IsSpace(w[1]) THEN strip(Tail(w))
    ELSE IF IsSpace(w[Len(w)]) THEN strip(SubSeq(w, 1, Len(w) - 1))
    ELSE w

NotSpace(c) == ~ IsSpace(c)

\* str.split(): the words between runs of whitespace
RECURSIVE split(_)
split(w) ==
    LET t == From(w, PrefixLen(w, IsSpace) + 1)
        k == PrefixLen(t, NotSpace)
    IN  IF t = << >> THEN << >>
        ELSE << SubSeq(t, 1, k) >> \o split(From(t, k + 1))

\* is_vcs, lines 37-41: vcs_protocols
vcs_protocols ==
    << << "g", "i", "t" >>,
       << "g", "i", "t", "+", "h", "t", "t", "p" >>,
       << "g", "i", "t", "+", "s", "s", "h" >>,
       << "h", "g", "+", "h", "t", "t", "p" >>,
       << "h", "g", "+", "h", "t", "t", "p", "s" >>,
       << "h", "g", "+", "s", "t", "a", "t", "i", "c", "-", "h", "t", "t", "p" >>,
       << "h", "g", "+", "s", "s", "h" >>,
       << "b", "z", "r", "+", "h", "t", "t", "p" >>,
       << "b", "z", "r", "+", "h", "t", "t", "p", "s" >>,
       << "b", "z", "r", "+", "s", "s", "h" >>,
       << "b", "z", "r", "+", "s", "f", "t", "p" >>,
       << "b", "z", "r", "+", "f", "t", "p" >>,
       << "b", "z", "r", "+", "l", "p" >>,
       << "s", "v", "n" >>,
       << "s", "v", "n", "+", "s", "v", "n" >>,
       << "s", "v", "n", "+", "h", "t", "t", "p" >>,
       << "s", "v", "n", "+", "h", "t", "t", "p", "s" >>,
       << "s", "v", "n", "+", "s", "s", "h" >> >>

\* is_vcs: any(word.startswith(proto) for proto in vcs_protocols)
is_vcs(word) ==
    \E i \in 1 .. Len(vcs_protocols) : StartsWith(word, vcs_protocols[i])

NotDigit(c) == ~ IsDigit(c)

\* int(text), for a run of digits
RECURSIVE ToInt(_)
ToInt(w) ==
    IF w = << >> THEN 0
    ELSE 10 * ToInt(SubSeq(w, 1, Len(w) - 1)) + (IndexIn(w[Len(w)], Digits) - 1)

\* natural_sort, line 49: alphanum_key.  re.split('([0-9]+)', key) gives
\* text, digits, text, ..., text; a run of digits becomes its number, a text
\* its lower case.
RECURSIVE alphanum_key(_)
alphanum_key(w) ==
    LET k == PrefixLen(w, NotDigit)
        text == [ int |-> FALSE, n |-> 0, s |-> Lower(SubSeq(w, 1, k)) ]
        t == From(w, k + 1)
        d == PrefixLen(t, IsDigit)
    IN  IF t = << >> THEN << text >>
        ELSE << text, [ int |-> TRUE, n |-> ToInt(SubSeq(t, 1, d)), s |-> << >> ] >>
                 \o alphanum_key(From(t, d + 1))

\* the order of strings: by code point, a proper prefix first
RECURSIVE StrLess(_, _)
StrLess(u, v) ==
    IF v = << >> THEN FALSE
    ELSE IF u = << >> THEN TRUE
    ELSE IF u[1] # v[1] THEN Ord(u[1]) < Ord(v[1])
    ELSE StrLess(Tail(u), Tail(v))

\* the order of two elements of a key; a number sorts before a text
ElemLess(x, y) ==
    IF x.int /\ y.int THEN x.n < y.n
    ELSE IF ~ x.int /\ ~ y.int THEN StrLess(x.s, y.s)
    ELSE x.int

\* the order of lists: by the first elements that differ, a proper prefix first
RECURSIVE KeyLess(_, _)
KeyLess(k1, k2) ==
    IF k2 = << >> THEN FALSE
    ELSE IF k1 = << >> THEN TRUE
    ELSE IF k1[1] # k2[1] THEN ElemLess(k1[1], k2[1])
    ELSE KeyLess(Tail(k1), Tail(k2))

\* v is before w in the natural order
NaturalLess(v, w) == KeyLess(alphanum_key(v), alphanum_key(w))

\* natural_sort of a list of two: sorted is stable
natural_sort(l) ==
    IF NaturalLess(l[2], l[1]) THEN << l[2], l[1] >> ELSE l

\* Requirement.__init__
Requirement ==
    [ params |-> {}, name |-> None, url |-> None, op |-> None, version |-> None ]

\* a value that counts as true in a condition
Truthy(x) == x # None /\ x # << >>

\* the messages of ConflictingRequirementsError, lines 63, 71, 86
ErrTwoSources == "ConflictingRequirementsError: Two different VCS sources"

ErrVcsVersion == "ConflictingRequirementsError: Cannot specify a version for a VCS source"

ErrMismatch == "ConflictingRequirementsError: Required version mismatch"

\* common_req, lines 61-68: the url of the merge
CommonUrl(a, b) ==
    IF is_vcs(a.url) /\ is_vcs(b.url) THEN a.url
    ELSE IF is_vcs(b.url) THEN b.url
    ELSE a.url

\* common_req, lines 73-83: op and version of the merge; with an operator on
\* both sides only c.version is assigned, c.op stays None
CommonVersion(a, b) ==
    IF a.op = None THEN [ op |-> b.op, version |-> b.version ]
    ELSE IF b.op = None THEN [ op |-> a.op, version |-> a.version ]
    ELSE [ op |-> None, version |-> natural_sort(<< a.version, b.version >>)[2] ]

\* a common_req that stores into d as it goes, before its checks
common_req_stores_early(a, b, d) ==
    LET url == CommonUrl(a, b)
        ov == CommonVersion(a, b)
        c == [ params |-> a.params \cup b.params, name |-> a.name,
               url |-> url, op |-> ov.op, version |-> ov.version ]
        eq == << "=", "=" >>
    IN  IF is_vcs(a.url) /\ is_vcs(b.url) /\ a.url # b.url
        THEN [ err |-> ErrTwoSources, d |-> [ d EXCEPT !.params = c.params ] ]
        ELSE IF Truthy(a.op) /\ Truthy(b.op) /\ is_vcs(url)
        THEN [ err |-> ErrVcsVersion, d |-> [ d EXCEPT !.params = c.params, !.url = url ] ]
        ELSE IF /\ a.op # None /\ b.op # None
                /\ \/ a.op = eq /\ a.version # c.version
                   \/ b.op = eq /\ b.version # c.version
        THEN [ err |-> ErrMismatch, d |-> c ]
        ELSE [ err |-> "none", d |-> c ]

\* common_req, lines 53-92: the exception raised ("none": no exception) and
\* what d holds afterwards
common_req(a, b, d) ==
    LET url == CommonUrl(a, b)
        ov == CommonVersion(a, b)
        c == [ params |-> a.params \cup b.params, name |-> a.name,
               url |-> url, op |-> ov.op, version |-> ov.version ]
        eq == << "=", "=" >>
    IN  IF is_vcs(a.url) /\ is_vcs(b.url) /\ a.url # b.url
        THEN [ err |-> ErrTwoSources, d |-> d ]
        ELSE IF Truthy(a.op) /\ Truthy(b.op) /\ is_vcs(url)
        THEN [ err |-> ErrVcsVersion, d |-> d ]
        ELSE IF /\ a.op # None /\ b.op # None
                /\ \/ a.op = eq /\ a.version # c.version
                   \/ b.op = eq /\ b.version # c.version
        THEN [ err |-> ErrMismatch, d |-> d ]
        ELSE [ err |-> "none", d |-> c ]


\* [A-Za-z][A-Za-z0-9_.-]* , the whole of w
IsPackage(w) ==
    /\ Len(w) >= 1
    /\ IsLetter(w[1])
    /\ \A i \in 1 .. Len(w) : IsPackageChar(w[i])

IsVersionChar(c) == IsDigit(c) \/ c = "."

\* [0-9][0-9.]* , the whole of w
IsVersion(w) ==
    /\ Len(w) >= 1
    /\ IsDigit(w[1])
    /\ \A i \in 1 .. Len(w) : IsVersionChar(w[i])

\* load, line 143: re.search('#egg=(<package>)$', word); None without a match
MatchEgg(word) ==
    LET egg == << "#", "e", "g", "g", "=" >>
        at == { i \in 1 .. Len(word) :
                  /\ StartsWith(From(word, i), egg)
                  /\ IsPackage(From(word, i + Len(egg))) }
    IN  IF at = {} THEN None
        ELSE From(word, (CHOOSE i \in at : \A j \in at : i <= j) + Len(egg))

\* re.match found nothing
NoMatch ==
    [ matched |-> FALSE, package |-> None, eqop |-> None, geqop |-> None,
      version |-> None ]

\* load, lines 116-122 and 151: re.match(re_package_version, word) and the
\* groups of the match
MatchPackageVersion(word) ==
    LET k == PrefixLen(word, IsPackageChar)
        rest == From(word, k + 1)
        oper == SubSeq(rest, 1, 2)
    IN  IF ~ (Len(word) >= 1 /\ IsLetter(word[1])) THEN NoMatch
        ELSE IF rest = << >>
        THEN [ matched |-> TRUE, package |-> SubSeq(word, 1, k), eqop |-> None,
               geqop |-> None, version |-> None ]
        ELSE IF Len(rest) >= 3 /\ oper = << "=", "=" >> /\ IsVersion(From(rest, 3))
        THEN [ matched |-> TRUE, package |-> SubSeq(word, 1, k), eqop |-> oper,
               geqop |-> None, version |-> From(rest, 3) ]
        ELSE IF Len(rest) >= 3 /\ oper = << ">", "=" >> /\ IsVersion(From(rest, 3))
        THEN [ matched |-> TRUE, package |-> SubSeq(word, 1, k), eqop |-> None,
               geqop |-> oper, version |-> From(rest, 3) ]
        ELSE NoMatch

\* x or y
Or(x, y) == IF Truthy(x) THEN x ELSE y

Parsed(req) == [ kind |-> "req", err |-> "none", req |-> req, file |-> None ]

Raised(e) == [ kind |-> "error", err |-> e, req |-> Requirement, file |-> None ]

\* load, lines 142-155: the requirement of the first word, with its params
ParseWord(word, params) ==
    IF is_vcs(word)
    THEN IF MatchEgg(word) = None THEN Raised("AttributeError")
         ELSE Parsed([ params |-> params, name |-> MatchEgg(word), url |-> word,
                       op |-> None, version |-> None ])
    ELSE IF \/ StartsWith(word, << "h", "t", "t", "p", ":", "/", "/" >>)
            \/ StartsWith(word, << "h", "t", "t", "p", "s", ":", "/", "/" >>)
    THEN Parsed([ params |-> params, name |-> word, url |-> word,
                  op |-> None, version |-> None ])
    ELSE LET match == MatchPackageVersion(word)
         IN  IF ~ match.matched THEN Raised("AttributeError")
             ELSE Parsed([ params |-> params, name |-> match.package,
                           url |-> match.package,
                           op |-> Or(match.eqop, match.geqop),
                           version |-> match.version ])

\* load, lines 125-155: what one line of the handle amounts to
ParseLine(line) ==
    LET words == split(strip(line))
    IN  IF Len(strip(line)) = 0
        THEN [ kind |-> "blank", err |-> "none", req |-> Requirement, file |-> None ]
        ELSE IF words[1] = << "-", "r" >>
        THEN IF Len(words) < 2 THEN Raised("IndexError")
             ELSE [ kind |-> "include", err |-> "none", req |-> Requirement,
                    file |-> words[2] ]
        ELSE IF words[1] = << "-", "e" >>
        THEN IF Len(words) < 2 THEN Raised("IndexError")
             ELSE ParseWord(words[2], { << "-", "e" >> })
        ELSE ParseWord(words[1], {})

\* ParseLine over the lines of the model
Parse == [ line \in Lines |-> ParseLine(line) ]

ReqInit ==
    /\ objs = << >>
    /\ reqs = << >>
    /\ reqs_by_name = [ x \in {} |-> 0 ]
    /\ rstate = "loading"
    /\ rerr = "none"
    /\ depth = 0
    /\ hist = << >>

\* the for loop of load takes the next line of the handle
Reads(line) ==
    /\ rstate = "loading"
    /\ Len(hist) < MaxLines
    /\ hist' = Append(hist, line)
    /\ UNCHANGED cacheVars

\* load, lines 125-127: a blank line is passed over
LoadBlank ==
    \E line \in Lines :
        /\ Parse[line].kind = "blank"
        /\ Reads(line)
        /\ UNCHANGED << objs, reqs, reqs_by_name, rstate, rerr, depth >>

\* load, lines 132-136: -r opens the named file and loads it in place
LoadInclude ==
    \E line \in Lines, opens \in BOOLEAN :
        /\ Parse[line].kind = "include"
        /\ depth < MaxDepth
        /\ Reads(line)
        /\ IF opens
           THEN /\ depth' = depth + 1
                /\ UNCHANGED << rstate, rerr >>
           ELSE /\ rstate' = "error"
                /\ rerr' = "IOError"
                /\ UNCHANGED depth
        /\ UNCHANGED << objs, reqs, reqs_by_name >>

\* load raises on a line it cannot take apart
LoadMalformed ==
    \E line \in Lines :
        /\ Parse[line].kind = "error"
        /\ Reads(line)
        /\ rstate' = "error"
        /\ rerr' = Parse[line].err
        /\ UNCHANGED << objs, reqs, reqs_by_name, depth >>

\* an __add_req without the lookup of line 105: every entry is taken for new
LoadRequirementAppends ==
    \E line \in Lines :
        LET new_req == Parse[line].req
        IN  /\ Parse[line].kind = "req"
            /\ Reads(line)
            /\ UNCHANGED << depth, rstate, rerr >>
            /\ objs' = Append(objs, new_req)
            /\ reqs_by_name' =
                   [ x \in DOMAIN reqs_by_name \cup { new_req.name } |->
                       IF x = new_req.name THEN Len(objs) + 1
                       ELSE reqs_by_name[x] ]
            /\ reqs' = Append(reqs, Len(objs) + 1)

\* Requirements.__add_req, lines 104-111, called at line 157
LoadRequirement ==
    \E line \in Lines :
        LET new_req == Parse[line].req
        IN  /\ Parse[line].kind = "req"
            /\ Reads(line)
            /\ UNCHANGED depth
            /\ IF new_req.name \in DOMAIN reqs_by_name
               THEN LET old == reqs_by_name[new_req.name]
                        r == common_req(objs[old], new_req, objs[old])
                    IN  /\ objs' = [ objs EXCEPT ![old] = r.d ]
                        /\ rstate' = IF r.err = "none" THEN rstate ELSE "error"
                        /\ rerr' = r.err
                        /\ UNCHANGED << reqs, reqs_by_name >>
               ELSE /\ objs' = Append(objs, new_req)
                    /\ reqs_by_name' =
                           [ x \in DOMAIN reqs_by_name \cup { new_req.name } |->
                               IF x = new_req.name THEN Len(objs) + 1
                               ELSE reqs_by_name[x] ]
                    /\ reqs' = Append(reqs, Len(objs) + 1)
                    /\ UNCHANGED << rstate, rerr >>

\* the handle is exhausted: an included load returns to the loop that called
\* it, the outermost load returns to its caller
EndOfFile ==
    /\ rstate = "loading"
    /\ IF depth > 0
       THEN depth' = depth - 1 /\ UNCHANGED rstate
       ELSE rstate' = "done" /\ UNCHANGED depth
    /\ UNCHANGED << objs, reqs, reqs_by_name, rerr, hist >>
    /\ UNCHANGED cacheVars

ReqNext ==
    \/ LoadBlank
    \/ LoadInclude
    \/ LoadMalformed
    \/ LoadRequirement
    \/ EndOfFile

Init ==
    /\ CacheInit
    /\ ReqInit

\* the steps of a call that is under way
CacheSteps ==
    \/ \E p \in Procs : IsGoodStep(p)
    \/ \E p \in Procs : ForceCheck(p)
    \/ \E p \in Procs : Makedirs(p)
    \/ \E p \in Procs : CreateEnvironment(p)
    \/ \E p \in Procs : FixPipSed(p)
    \/ \E p \in Procs : FixPipUnlink(p)
    \/ \E p \in Procs : WriteRequirements(p)
    \/ \E p \in Procs : PipInstall(p)
    \/ \E p \in Procs : MarkAsGood(p)
    \/ \E p \in Procs : Except(p)
    \/ \E p \in Procs : Finish(p)

Next ==
    \/ \E p \in Procs : Get(p)
    \/ CacheSteps

\* the program: gets by manifest keys, one after another
Spec == Init /\ [][Next]_vars

AnyKeyNext ==
    \/ \E p \in Procs : GetAnyKey(p)
    \/ \E p \in Procs : BuildForced(p)
    \/ CacheSteps

\* the cache's interface: gets with any key, and direct forced builds
SpecAnyKey == Init /\ [][AnyKeyNext]_vars

\* RequirementsKey.__init__: the manifest is loaded
SpecReq == Init /\ [][ReqNext]_vars

(***************************************************************************)
(* Properties of the cache                                                 *)
(***************************************************************************)

\* process p is in a get that found its directory good / bad on entry
FoundGood(p) == call[p].via = "get" /\ GoodMark \in FilesOf(call[p].start)

FoundBad(p) ==
    /\ call[p].via = "get"
    /\ call[p].start.exists
    /\ GoodMark \notin FilesOf(call[p].start)

\* operation a was carried out before operation b in p's call
Before(p, a, b) ==
    \E i, j \in 1 .. Len(call[p].ran) :
        i < j /\ call[p].ran[i] = a /\ call[p].ran[j] = b

\* the steps a build has to complete, with and without fix_pip
StepsNeeded(fix) ==
    { "makedirs", "create_environment", "requirements.txt", "install" }
      \cup (IF fix THEN { "sed", "unlink" } ELSE {})

\* C1: a get on a key whose directory is Good returns an artifact for that
\* path without running the environment builder, the patch or the installer
\* (it carries out no operation at all), and the directory and its marker are
\* as they were; so for every get of every sequence of gets.
C1_GoodIsReturnedUntouched ==
    \A p \in Procs :
        FoundGood(p) =>
            /\ pc[p] \in { "is_good", "returned" }
            /\ call[p].ran = << >>
            /\ call[p].err = "none"
            /\ dirs[call[p].key] = call[p].start

C1_Witness ==
    \E p \in Procs : FoundGood(p) /\ pc[p] = "returned"

\* C2: a get on a key whose directory exists but is Bad removes the whole
\* directory first and only then creates it anew and builds: when makedirs
\* is reached the path does not exist, the removal precedes every build
\* step, and whatever is in the directory afterwards was written by this
\* build.
C2_BadIsDestroyedThenRebuilt ==
    \A p \in Procs :
        (FoundBad(p) /\ pc[p] \notin { "is_good", "force_check" }) =>
            /\ Len(call[p].ran) > 0 /\ call[p].ran[1] = "rmtree"
            /\ pc[p] = "makedirs" => ~ Exists(call[p].key)
            /\ \A x \in dirs[call[p].key].files : x[2] = p
            /\ pc[p] = "returned" =>
                   /\ StepsNeeded(call[p].fix_pip) \subseteq Range(call[p].ran)
                   /\ Before(p, "rmtree", "makedirs")

C2_Witness ==
    \E p \in Procs : FoundBad(p) /\ pc[p] = "returned"

\* C3: get ends in one of two ways.  Either it returns, and then the
\* directory is Good at that moment and the build that made it completed
\* environment creation, the patch when asked for, and the install; or it
\* raises the failure of the build.
C3_ReturnsGoodOrRaises ==
    \A p \in Procs :
        call[p].via = "get" =>
            /\ pc[p] = "returned" =>
                   /\ call[p].err = "none"
                   /\ is_good(call[p].key)
                   /\ last[call[p].key].status = "good"
                   /\ StepsNeeded(last[call[p].key].fix_pip)
                          \subseteq last[call[p].key].ok
                   /\ call[p].ran # << >> =>
                          StepsNeeded(call[p].fix_pip) \subseteq Range(call[p].ran)
            /\ pc[p] = "raised" => call[p].err # "none"
            /\ call[p].err # "none" => pc[p] \in { "except", "raised" }

C3_Witness ==
    \E p, q \in Procs :
        /\ call[p].via = "get" /\ pc[p] = "returned" /\ call[p].ran # << >>
        /\ call[p].fix_pip
        /\ \E n \in Names : last[n].status = "failed"

\* C4: the marker is present only if the most recent build of the directory
\* completed environment creation, the patch when asked for, and the install
\* without error; while a build runs and after one failed it is absent.
C4_MarkerOnlyAfterCompleteBuild ==
    \A n \in Names :
        /\ is_good(n) =>
               /\ last[n].status = "good"
               /\ StepsNeeded(last[n].fix_pip) \subseteq last[n].ok
        /\ last[n].status \in { "running", "failed" } => is_bad(n)

C4_Witness ==
    \E n, m \in Names :
        /\ is_good(n) /\ last[n].fix_pip
        /\ last[m].status = "failed" /\ Exists(m)

\* C5: when a build started by get fails, then as the failure reaches the
\* caller: without keep-broken the directory does not exist; with
\* keep-broken the handler removed nothing, the directory the build made is
\* in place and Bad.  A get that finds such a Bad directory removes it by
\* the checked rmtree of build before it creates anything.
C5_FailureCleanup ==
    \A p \in Procs :
        call[p].via = "get" =>
            /\ (pc[p] = "raised" /\ ~ call[p].keep_broken) =>
                   ~ Exists(call[p].key)
            /\ (pc[p] = "raised" /\ call[p].keep_broken) =>
                   /\ "handler_rmtree" \notin Range(call[p].ran)
                   /\ is_bad(call[p].key)
                   /\ Exists(call[p].key) <=> "makedirs" \in Range(call[p].ran)
            /\ (FoundBad(p) /\ "makedirs" \in Range(call[p].ran)) =>
                   /\ RemovalAllowed(call[p].key)
                   /\ Before(p, "rmtree", "makedirs")

C5_Witness ==
    \E p \in Procs :
        /\ FoundBad(p) /\ pc[p] = "raised" /\ call[p].keep_broken
        /\ Exists(call[p].key)
        /\ Before(p, "rmtree", "makedirs")

\* p's call went through the forced destroy of build on an existing path
ForcedDestroyOn(p) ==
    /\ call[p].start.exists
    /\ \/ call[p].via = "build"
       \/ call[p].via = "get" /\ GoodMark \notin FilesOf(call[p].start)

\* C6: a forced destroy on an existing path whose base name is not
\* key-shaped, by build called directly or through get, raises the
\* unsafe-removal error and changes nothing: the directory and its contents
\* are as before once the error has reached the caller.  Stated for the base
\* names that are not of the key's length, which no reading takes for
\* key-shaped.
C6_UnsafeRemovalChangesNothing ==
    \A p \in Procs :
        (ForcedDestroyOn(p) /\ ~ KeyShaped(call[p].key)
           /\ call[p].key.len # KeyLen
           /\ pc[p] \in { "returned", "raised" }) =>
            /\ pc[p] = "raised"
            /\ call[p].err = "AssertionError"
            /\ dirs[call[p].key] = call[p].start

\* the case of C6 the code's check covers: a base name of another length, the
\* error raised and handed to the caller
C6_Witness ==
    \E p \in Procs :
        /\ ForcedDestroyOn(p) /\ call[p].key.len # KeyLen
        /\ pc[p] = "raised" /\ call[p].err = "AssertionError"

(***************************************************************************)
(* Properties of the parser                                                *)
(***************************************************************************)

\* the spec's names for the errors of the merge
ConflictingSource == { ErrTwoSources }

ConflictingVersion == { ErrVcsVersion, ErrMismatch }

OpEq == << "=", "=" >>

OpGe == << ">", "=" >>

\* the line is a plain entry name<op>version
PlainWithOp(line, op) ==
    /\ Parse[line].kind = "req"
    /\ Parse[line].req.op = op
    /\ Parse[line].req.url = Parse[line].req.name

\* the line is a version-control entry
VcsLine(line) == Parse[line].kind = "req" /\ is_vcs(Parse[line].req.url)

SameName(l1, l2) == Parse[l1].req.name = Parse[l2].req.name

\* the Requirements of the collection, in order
Collection == [ k \in 1 .. Len(reqs) |-> objs[reqs[k]] ]

\* C7: a manifest that gives a plain package first as name==v and then as
\* name>=w, w not naturally greater than v, parses to a collection with a
\* single Requirement for the name, whose op is == and whose version is v.
C7_PinThenLowerBoundKeepsPin ==
    ( /\ Len(hist) = 2
      /\ PlainWithOp(hist[1], OpEq)
      /\ PlainWithOp(hist[2], OpGe)
      /\ SameName(hist[1], hist[2])
      /\ ~ NaturalLess(Parse[hist[1]].req.version, Parse[hist[2]].req.version) )
    => /\ rstate # "error"
       /\ Len(Collection) = 1
       /\ Collection[1].name = Parse[hist[1]].req.name
       /\ Collection[1].op = OpEq
       /\ Collection[1].version = Parse[hist[1]].req.version

\* line j carries a version that conflicts with the exact pin of line i:
\* naturally greater than the pinned one, or another exact version
ConflictsWithPin(i, j) ==
    LET a == Parse[hist[i]].req
        b == Parse[hist[j]].req
    IN  /\ i # j
        /\ Parse[hist[i]].kind = "req" /\ Parse[hist[j]].kind = "req"
        /\ a.name = b.name
        /\ a.op = OpEq
        /\ b.op # None
        /\ \/ NaturalLess(a.version, b.version)
           \/ b.op = OpEq /\ b.version # a.version

\* C8: whenever the lines read hold an exact pin ==v of a package and, before
\* or after it and with whatever in between, another line of that package
\* with a naturally greater version or with another == version, the load has
\* failed with the conflicting-version error.
C8_PinConflictAlwaysFails ==
    \A i, j \in 1 .. Len(hist) :
        ConflictsWithPin(i, j) => rstate = "error" /\ rerr \in ConflictingVersion

\* C9: whenever the lines read name a package once by a version-control
\* locator and once as a plain entry with a version constraint, in either
\* order, the load has failed with the conflicting-version error; and no
\* Requirement of a collection loaded without error has a version-control url
\* together with an operator.
C9_VcsWithVersionFails ==
    /\ \A i, j \in 1 .. Len(hist) :
          ( /\ VcsLine(hist[i])
            /\ PlainWithOp(hist[j], OpEq) \/ PlainWithOp(hist[j], OpGe)
            /\ SameName(hist[i], hist[j]) )
          => rstate = "error" /\ rerr \in ConflictingVersion
    /\ rstate # "error" =>
          \A k \in 1 .. Len(Collection) :
              ~ (is_vcs(Collection[k].url) /\ Collection[k].op # None)

\* C10: every Requirement of a collection after lines parsed without error,
\* merged entries included, has an op if and only if it has a version, and a
\* url that is not empty.
C10_OpIffVersion ==
    rstate # "error" =>
        \A k \in 1 .. Len(Collection) :
            /\ Collection[k].op # None <=> Collection[k].version # None
            /\ Truthy(Collection[k].url)

\* the names of the lines read that hold a requirement, each at the place of
\* its first line
RECURSIVE FirstSeen(_)
FirstSeen(h) ==
    IF h = << >> THEN << >>
    ELSE LET front == FirstSeen(SubSeq(h, 1, Len(h) - 1))
             l == h[Len(h)]
         IN  IF Parse[l].kind = "req" /\ Parse[l].req.name \notin Range(front)
             THEN Append(front, Parse[l].req.name)
             ELSE front

\* the names of the collection, in order
CollectionNames == [ k \in 1 .. Len(reqs) |-> objs[reqs[k]].name ]

\* the sequence and the name index agree, and follow the first lines of the names
IndexedInOrder ==
    /\ CollectionNames = FirstSeen(hist)
    /\ \A i, j \in 1 .. Len(reqs) :
          CollectionNames[i] = CollectionNames[j] => i = j
    /\ DOMAIN reqs_by_name = Range(CollectionNames)
    /\ \A k \in 1 .. Len(reqs) : reqs_by_name[CollectionNames[k]] = reqs[k]

\* a line is read whose name the index already holds
MergeStep ==
    /\ Len(hist') = Len(hist) + 1
    /\ Parse[hist'[Len(hist')]].kind = "req"
    /\ Parse[hist'[Len(hist')]].req.name \in DOMAIN reqs_by_name

\* C11: after any lines read, included files among them, the sequence holds
\* each name once, holds the names of the index and no others, the index
\* entry of a name is the object at the name's place in the sequence, and the
\* order is that of the names' first lines; a line of a name already held
\* leaves the sequence and the index as they are, the stored object being
\* changed in place, and no step moves or drops an entry.
C11_SequenceAndIndexAgree ==
    /\ [] IndexedInOrder
    /\ [][ /\ Len(reqs') >= Len(reqs)
           /\ SubSeq(reqs', 1, Len(reqs)) = reqs
           /\ MergeStep => reqs' = reqs /\ reqs_by_name' = reqs_by_name ]_vars

\* C11: a second name has come in and the first name has been merged
\* afterwards
C11_Witness ==
    /\ Len(hist) = 3 /\ rstate = "loading"
    /\ Len(reqs) = 2
    /\ Parse[hist[3]].kind = "req"
    /\ Parse[hist[3]].req.name = objs[reqs[1]].name

\* C12: merging a Requirement the parser has made with an equal one succeeds
\* and leaves it as it was, field for field: after a line holding a
\* requirement has been read twice over, load has not failed and the
\* collection holds the one Requirement of that line.
C12_MergeIdempotent ==
    ( /\ Len(hist) = 2
      /\ hist[1] = hist[2]
      /\ Parse[hist[1]].kind = "req" )
    => /\ rstate # "error"
       /\ Collection = << Parse[hist[1]].req >>

\* neither a version-control source
NeitherVcs(l1, l2) == ~ is_vcs(Parse[l1].req.url) /\ ~ is_vcs(Parse[l2].req.url)

\* C13: for two Requirements of one name, neither a version-control source,
\* whose merge does not fail, the merge in the one order and the merge in the
\* other are equal field for field: after the line of the first and then the
\* line of the second have been read without error, the stored Requirement is
\* what common_req gives for the second merged with the first.
C13_MergeCommutes ==
    ( /\ Len(hist) = 2
      /\ Parse[hist[1]].kind = "req" /\ Parse[hist[2]].kind = "req"
      /\ SameName(hist[1], hist[2])
      /\ NeitherVcs(hist[1], hist[2])
      /\ rstate # "error" )
    => LET a == Parse[hist[1]].req
           b == Parse[hist[2]].req
       IN  /\ common_req(b, a, b).err = "none"
           /\ Collection = << common_req(b, a, b).d >>

\* Requirement.__str__, lines 19-24: the params each followed by a blank, the
\* url, the op or '', the version or ''.  load puts no param but '-e' into the
\* set (line 139).
str(r) ==
    (IF << "-", "e" >> \in r.params THEN << "-", "e", " " >> ELSE << >>)
      \o r.url
      \o (IF Truthy(r.op) THEN r.op ELSE << >>)
      \o (IF Truthy(r.version) THEN r.version ELSE << >>)

\* RequirementsKey.get_key, line 105: '\n'.join(str(r) for r in reqs), the
\* text that is hashed
RECURSIVE KeyText(_)
KeyText(rs) ==
    IF Len(rs) = 0 THEN << >>
    ELSE IF Len(rs) = 1 THEN str(rs[1])
    ELSE KeyText(SubSeq(rs, 1, Len(rs) - 1)) \o << "\n" >> \o str(rs[Len(rs)])

\* Requirements.load over the lines m of a manifest, included files spliced
\* in: the exception raised ("none": no exception) and the Requirements in
\* order
RECURSIVE LoadLines(_)
LoadLines(m) ==
    IF m = << >> THEN [ err |-> "none", reqs |-> << >> ]
    ELSE LET front == LoadLines(SubSeq(m, 1, Len(m) - 1))
             line == Parse[m[Len(m)]]
             new_req == line.req
             at == { k \in 1 .. Len(front.reqs) : front.reqs[k].name = new_req.name }
         IN  IF front.err # "none" THEN front
             ELSE IF line.kind = "error" THEN [ front EXCEPT !.err = line.err ]
             ELSE IF line.kind # "req" THEN front
             ELSE IF at = {} THEN [ front EXCEPT !.reqs = Append(@, new_req) ]
             ELSE LET k == CHOOSE k \in at : TRUE
                      r == common_req(front.reqs[k], new_req, front.reqs[k])
                  IN  [ err |-> r.err, reqs |-> [ front.reqs EXCEPT ![k] = r.d ] ]

\* the manifests a second run may load
Manifests == UNION { [ 1 .. k -> Lines ] : k \in 0 .. MaxLines }

\* the same length and, place by place, the same params, url, op and version
SameFields(xs, ys) ==
    /\ Len(xs) = Len(ys)
    /\ \A k \in 1 .. Len(xs) :
          /\ xs[k].params = ys[k].params
          /\ xs[k].url = ys[k].url
          /\ xs[k].op = ys[k].op
          /\ xs[k].version = ys[k].version

\* C14: the collection loaded and the collection of any other manifest that
\* loads without error have the same text to hash if and only if they have
\* the same length and, place by place, the same params, url, op and version.
C14_SameTextIffSameFields ==
    rstate = "done" =>
        \A m \in Manifests :
            LoadLines(m).err = "none" =>
                ( KeyText(Collection) = KeyText(LoadLines(m).reqs)
                    <=> SameFields(Collection, LoadLines(m).reqs) )

\* the collection of the state is the one LoadLines gives for the lines read
\* (an included file that cannot be opened apart)
LoadLinesAgrees ==
    rerr # "IOError" =>
        /\ rstate = "error" <=> LoadLines(hist).err # "none"
        /\ Collection = LoadLines(hist).reqs
        /\ rerr = LoadLines(hist).err

\* the first word of the line is <name>, <name>==<version> or <name>>=<version>
PlainToken(line) ==
    /\ Len(strip(line)) > 0
    /\ MatchPackageVersion(split(strip(line))[1]).matched

\* C15: every line read whose token matches the plain grammar has been parsed
\* without error into a Requirement with name and url the token's name and op
\* and version as written, names that begin with the letters of a
\* version-control scheme included.
C15_PlainTokenParses ==
    \A i \in 1 .. Len(hist) :
        PlainToken(hist[i]) =>
            LET match == MatchPackageVersion(split(strip(hist[i]))[1])
            IN  /\ Parse[hist[i]].kind = "req"
                /\ Parse[hist[i]].req.name = match.package
                /\ Parse[hist[i]].req.url = match.package
                /\ Parse[hist[i]].req.op = Or(match.eqop, match.geqop)
                /\ Parse[hist[i]].req.version = match.version
                /\ ~ (i = Len(hist) /\ rstate = "error"
                        /\ rerr \in { "AttributeError", "IndexError" })

(***************************************************************************)
(* One run of the program: main, src/virtualenvcache.py lines 245-272       *)
(***************************************************************************)

\* a main that goes on to the cache whether or not the load has raised
LoadedOrRaised == rstate \in { "done", "error" }

\* main, line 261: RequirementsKey(opts) has returned, its manifest loaded
\* (lines 99-101); an exception of load leaves main there
LoadedOk == rstate = "done"

\* main, lines 261-263: the key of the loaded manifest is looked up in the
\* cache; get_key is the md5 digest of the collection's text, some name of 32
\* hexadecimal digits
MainGet(p) ==
    /\ LoadedOk
    /\ NoneInFlight
    /\ \E key \in DigestNames, keep \in BOOLEAN, fix \in BOOLEAN :
         EnterGet(p, key, keep, fix)

\* the steps of build and get, the call's end left out: the run ends with it
MainSteps ==
    \/ \E p \in Procs : IsGoodStep(p)
    \/ \E p \in Procs : ForceCheck(p)
    \/ \E p \in Procs : Makedirs(p)
    \/ \E p \in Procs : CreateEnvironment(p)
    \/ \E p \in Procs : FixPipSed(p)
    \/ \E p \in Procs : FixPipUnlink(p)
    \/ \E p \in Procs : WriteRequirements(p)
    \/ \E p \in Procs : PipInstall(p)
    \/ \E p \in Procs : MarkAsGood(p)
    \/ \E p \in Procs : Except(p)

MainNext ==
    \/ ReqNext
    \/ \E p \in Procs : MainGet(p)
    \/ MainSteps

\* one run: the manifest is loaded, then its environment is got
SpecMain == Init /\ [][MainNext]_vars

\* C16: when the load of the manifest has failed, no key has been derived, no
\* get has been entered, and no directory of the cache has been created,
\* removed or marked.
C16_FailedLoadNeverReachesCache ==
    rstate = "error" =>
        /\ \A p \in Procs : pc[p] = "idle" /\ call[p] = NoCall
        /\ dirs = [ n \in Names |-> NoDir ]
        /\ last = [ n \in Names |-> NoBuild ]

\* C16: the load has failed on a conflict of the merge
C16_Witness ==
    /\ rstate = "error"
    /\ rerr \in ConflictingSource \cup ConflictingVersion
    /\ Len(hist) >= 2

(***************************************************************************)
(* Runs at the same time: nothing in get or build locks the directory       *)
(***************************************************************************)

\* the key the runs have in common
RaceKey == CHOOSE n \in DigestNames : n.id = 1

\* VirtualEnvCache.get entered by a run while other runs may be inside it
GetConcurrent(p) ==
    \E keep \in BOOLEAN, fix \in BOOLEAN : EnterGet(p, RaceKey, keep, fix)

ConcurrentNext ==
    \/ \E p \in Procs : GetConcurrent(p)
    \/ MainSteps

\* runs of the program on one key, one get each, in any interleaving of
\* their steps
SpecConcurrent == Init /\ [][ConcurrentNext]_vars

\* whether the step p stands at finds in the directory what it needs
CanSucceed(p) ==
    LET n == call[p].key
    IN  CASE pc[p] = "makedirs" -> ~ Exists(n)
          [] pc[p] = "create_environment" -> TRUE
          [] pc[p] \in { "fix_pip_sed", "pip_install" } -> ExeclpCanRun(n)
          [] pc[p] \in { "fix_pip_unlink", "write_requirements" } -> Exists(n)
          [] OTHER -> FALSE

\* the step of p does not fail unless the directory makes it fail
NoExternalFailure(p) ==
    (call[p].err = "none" /\ call'[p].err # "none") => ~ CanSucceed(p)

\* get entered while no other run has come to its end: the runs overlap
RaceGet(p) ==
    /\ \A q \in Procs : pc[q] \notin { "returned", "raised" }
    /\ GetConcurrent(p)

RaceNext ==
    \/ \E p \in Procs : RaceGet(p)
    \/ \E p \in Procs : IsGoodStep(p)
    \/ \E p \in Procs : ForceCheck(p)
    \/ \E p \in Procs : Makedirs(p) /\ NoExternalFailure(p)
    \/ \E p \in Procs : CreateEnvironment(p) /\ NoExternalFailure(p)
    \/ \E p \in Procs : FixPipSed(p) /\ NoExternalFailure(p)
    \/ \E p \in Procs : FixPipUnlink(p) /\ NoExternalFailure(p)
    \/ \E p \in Procs : WriteRequirements(p) /\ NoExternalFailure(p)
    \/ \E p \in Procs : PipInstall(p) /\ NoExternalFailure(p)
    \/ \E p \in Procs : MarkAsGood(p)
    \/ \E p \in Procs : Except(p)

\* overlapping runs on one key not built before, one get each, the tools
\* never failing of themselves
SpecRace == Init /\ [][RaceNext]_vars

\* every run has made its get and come to its end
AllFinished == \A p \in Procs : pc[p] \in { "returned", "raised" }

\* C17: when overlapping gets of one key not built before, with no build
\* step failing of itself, have all come to their end, the directory of the
\* key exists and is Good.
C17_RaceEndsGood ==
    AllFinished => Exists(RaceKey) /\ is_good(RaceKey)

\* C17: the runs have all come to their end after building side by side
C17_Witness ==
    /\ AllFinished
    /\ \A p \in Procs : call[p].ran # << >>

\* C18: no step of any run removes a directory that carries the good marker
\* or takes the marker away, so that an environment found or made Good stays
\* Good while other gets of its key run to their end.
C18_GoodIsNeverDestroyed ==
    [][ \A n \in Names :
          is_good(n) => dirs'[n].exists /\ GoodMark \in FilesOf(dirs'[n]) ]_vars

\* C18: a get has returned a Good environment while another get of the key
\* is under way
C18_Witness ==
    \E p, q \in Procs :
        /\ pc[p] = "returned" /\ is_good(call[p].key)
        /\ pc[q] \notin { "idle", "returned", "raised" }
        /\ call[q].key = call[p].key

\* C19: the forced destroy of build has removed a directory only if its base
\* name is of the key format, 32 characters all of them hexadecimal digits;
\* met with an existing directory of any other base name it has raised the
\* assertion and removed nothing.
C19_ForcedDestroyOnlyOfKeys ==
    \A p \in Procs :
        /\ "rmtree" \in Range(call[p].ran) => KeyShaped(call[p].key)
        /\ ( /\ ForcedDestroyOn(p)
             /\ ~ KeyShaped(call[p].key)
             /\ pc[p] \notin { "idle", "is_good", "force_check" } )
           => call[p].err = "AssertionError"

\* C19: the forced destroy has met an existing directory whose base name has
\* 32 characters, not all of them hexadecimal digits
C19_Witness ==
    \E p \in Procs :
        /\ ForcedDestroyOn(p)
        /\ call[p].key.len = KeyLen /\ ~ call[p].key.hex
        /\ pc[p] \notin { "idle", "is_good", "force_check" }

\* the exceptions of the merge
MergeConflicts == ConflictingSource \cup ConflictingVersion

\* C20: a line whose merge into the collection fails with a conflict leaves
\* the collection as it was before the line: the stored Requirement of the
\* name keeps its params, name, url, op and version, and the sequence and
\* the name index are unchanged.
C20_FailedMergeChangesNothing ==
    [][ (rstate # "error" /\ rstate' = "error" /\ rerr' \in MergeConflicts)
          => objs' = objs /\ reqs' = reqs /\ reqs_by_name' = reqs_by_name ]_vars

\* C20: a merge has failed on a line whose version is not the stored one
C20_Witness ==
    /\ rstate = "error"
    /\ rerr = ErrMismatch
    /\ LET new_req == Parse[hist[Len(hist)]].req
       IN  /\ new_req.name \in DOMAIN reqs_by_name
           /\ objs[reqs_by_name[new_req.name]].version # new_req.version
           /\ objs[reqs_by_name[new_req.name]].op # None

====
